---- MODULE Spec2Model ----
(***************************************************************************)
(* Model of the playlist recommendation API server (src/api/app.py):       *)
(*   - get_recommendations, the rule-matching function, as an operator;    *)
(*   - the model store (app.model_data, app.model_last_modified,           *)
(*     app.model_lock), initialize_app, the background thread              *)
(*     check_and_reload_model, and the request handlers recommend and      *)
(*     health, as a state machine whose steps are the statements between   *)
(*     which another thread or the file system can act.                    *)
(* Three specifications:                                                   *)
(*   Spec     the running server with the model file changing under it;    *)
(*   SpecRec  get_recommendations applied to bounded inputs;               *)
(*   SpecLive the server with fair scheduling of its threads.              *)
(***************************************************************************)
EXTENDS Integers, Sequences, FiniteSets, TLC

VARIABLES
    file,                 \* the file at MODEL_PATH: [exists, content, mtime]
    model_data,           \* app.model_data
    model_last_modified,  \* app.model_last_modified
    model_lock,           \* app.model_lock: free, or held by a thread
    main_pc,              \* position of the main thread (initialize_app, then app.run)
    main_loaded,          \* the value load_model() returned to initialize_app
    poller_pc,            \* position of the check_and_reload_model thread
    current_mtime,        \* its local current_mtime
    new_model,            \* its local new_model
    pc,                   \* position of each request-handling thread
    body,                 \* the request each one is handling
    recs,                 \* its local recommendations
    resp,                 \* the response it returned
    rec_pc,               \* SpecRec: "ready", "called", "recalled"
    rec_rules,            \* SpecRec: the rules argument
    rec_input,            \* SpecRec: the input_songs argument
    rec_limit,            \* SpecRec: the max_recommendations argument
    rec_result,           \* SpecRec: the list returned
    rec_input2,           \* SpecRec: input_songs of a second call on the same rules
    rec_result2,          \* SpecRec: the list the second call returned
    completed,            \* history: app.model_data as of the last completed publish
    read_mtime,           \* history: mtime of the file version load_model() has just read
    source_mtime          \* history: mtime of the file version app.model_data was read from

sysvars == <<file, model_data, model_last_modified, model_lock, main_pc, main_loaded,
             poller_pc, current_mtime, new_model, pc, body, recs, resp>>
recvars == <<rec_pc, rec_rules, rec_input, rec_limit, rec_result, rec_input2, rec_result2>>
histvars == <<completed, read_mtime, source_mtime>>
vars == <<file, model_data, model_last_modified, model_lock, main_pc, main_loaded,
          poller_pc, current_mtime, new_model, pc, body, recs, resp,
          rec_pc, rec_rules, rec_input, rec_limit, rec_result, rec_input2, rec_result2,
          completed, read_mtime, source_mtime>>

----------------------------------------------------------------------------
(* Bounds *)

MaxRules == 3      \* longest rule list given to get_recommendations in SpecRec
MaxLiked == 2      \* longest input_songs list in SpecRec
MaxLimit == 2      \* largest max_recommendations in SpecRec
MaxConf == 2       \* confidences are 1..MaxConf (only their order matters)
MaxTime == 2       \* modification times are 1..MaxTime
MaxGen == 2        \* distinct valid model files (generations) 1..MaxGen
NumClients == 2    \* request-handling threads

Min(a, b) == IF a <= b THEN a ELSE b
Max(a, b) == IF a >= b THEN a ELSE b

SeqsUpTo(S, n) == UNION {[1..k -> S] : k \in 0..n}

----------------------------------------------------------------------------
(* Python values of a rule: rule[0] and rule[1] are a bare item or a set.  *)
(* A set is written as the sequence of its elements in the order the       *)
(* interpreter iterates it (fixed for one set object, arbitrary otherwise).*)

Bare(x) == [isset |-> FALSE, item |-> x, elems |-> <<>>]
PySet(s) == [isset |-> TRUE, item |-> "", elems |-> s]
Rule(a, c, conf) == [antecedent |-> a, consequent |-> c, confidence |-> conf]

\* app.py 96-99: "if not isinstance(x, set): x = {x}"
AsSet(x) == IF x.isset THEN x.elems ELSE <<x.item>>

\* app.py 86: input_set = set(input_songs)
InputSetMut(input_songs) == {input_songs[i] : i \in 1..(Len(input_songs) - 1)}
InputSet(input_songs) == {input_songs[i] : i \in DOMAIN input_songs}

\* app.py 102: antecedent.issubset(input_set)
IsSubsetMut(antecedent, input_set) == \E i \in DOMAIN antecedent : antecedent[i] \in input_set
IsSubset(antecedent, input_set) == \A i \in DOMAIN antecedent : antecedent[i] \in input_set

\* app.py 105: song not in input_set
NotSelectedMut(song, input_set) == TRUE
NotSelected(song, input_set) == song \notin input_set

\* The dict recommendations (song -> confidence), in insertion order.
DictHas(d, k) == \E i \in DOMAIN d : d[i].song = k
DictGet(d, k) == d[CHOOSE i \in DOMAIN d : d[i].song = k].confidence
DictSet(d, k, v) ==
    IF DictHas(d, k)
    THEN [i \in DOMAIN d |-> IF d[i].song = k THEN [song |-> k, confidence |-> v] ELSE d[i]]
    ELSE Append(d, [song |-> k, confidence |-> v])

\* app.py 107: song not in recommendations or confidence > recommendations[song]
KeepsHighestMut(d, song, confidence) == TRUE
KeepsHighest(d, song, confidence) == ~DictHas(d, song) \/ confidence > DictGet(d, song)

\* app.py 104-108: the loop over one consequent
RECURSIVE ScanConsequent(_, _, _, _, _)
ScanConsequent(consequent, i, confidence, input_set, d) ==
    IF i > Len(consequent) THEN d
    ELSE LET song == consequent[i]
             d2 == IF NotSelected(song, input_set) /\ KeepsHighest(d, song, confidence)
                   THEN DictSet(d, song, confidence)
                   ELSE d
         IN ScanConsequent(consequent, i + 1, confidence, input_set, d2)

\* app.py 90-108: the loop over the rules
RECURSIVE ScanRules(_, _, _, _)
ScanRules(rules, i, input_set, d) ==
    IF i > Len(rules) THEN d
    ELSE LET antecedent == AsSet(rules[i].antecedent)
             consequent == AsSet(rules[i].consequent)
             d2 == IF IsSubset(antecedent, input_set)
                   THEN ScanConsequent(consequent, 1, rules[i].confidence, input_set, d)
                   ELSE d
         IN ScanRules(rules, i + 1, input_set, d2)

\* app.py 111-115: sorted(items, key=confidence, reverse=True); the sort is
\* stable, and reverse=True keeps the original order of equal keys.
InsertDescMut(s, e) ==
    LET before == {j \in DOMAIN s : s[j].confidence > e.confidence}
        k == Cardinality(before)
    IN SubSeq(s, 1, k) \o <<e>> \o SubSeq(s, k + 1, Len(s))
InsertDesc(s, e) ==
    LET before == {j \in DOMAIN s : s[j].confidence >= e.confidence}
        k == Cardinality(before)
    IN SubSeq(s, 1, k) \o <<e>> \o SubSeq(s, k + 1, Len(s))

RECURSIVE SortedDesc(_, _, _)
SortedDesc(d, i, acc) ==
    IF i > Len(d) THEN acc ELSE SortedDesc(d, i + 1, InsertDesc(acc, d[i]))

\* app.py 115: the slice [:max_recommendations]
SlicePrefixMut(s, n) ==
    IF n >= 0 THEN SubSeq(s, 1, Min(n + 1, Len(s))) ELSE SubSeq(s, 1, Max(0, Len(s) + n))
SlicePrefix(s, n) ==
    IF n >= 0 THEN SubSeq(s, 1, Min(n, Len(s))) ELSE SubSeq(s, 1, Max(0, Len(s) + n))

\* app.py 70-117
get_recommendations(input_songs, rules, max_recommendations) ==
    IF rules = <<>> THEN <<>>
    ELSE LET input_set == InputSet(input_songs)
             recommendations == ScanRules(rules, 1, input_set, <<>>)
             sorted_recommendations ==
                 SlicePrefix(SortedDesc(recommendations, 1, <<>>), max_recommendations)
         IN [i \in DOMAIN sorted_recommendations |-> sorted_recommendations[i].song]

----------------------------------------------------------------------------
(* Python values held by the store and by the model file *)

PyNone == [type |-> "NoneType", has_rules |-> FALSE, has_metadata |-> FALSE,
           other |-> FALSE, rules |-> <<>>, model_date |-> 0]
\* {} : a readable pickle that is falsy
EmptyDict == [type |-> "dict", has_rules |-> FALSE, has_metadata |-> FALSE,
              other |-> FALSE, rules |-> <<>>, model_date |-> 0]
\* a readable, non-empty dict with neither 'rules' nor 'metadata'
NoStructDict == [type |-> "dict", has_rules |-> FALSE, has_metadata |-> FALSE,
                 other |-> TRUE, rules |-> <<>>, model_date |-> 0]

\* The song generation g recommends to a listener of "X"
GenSongs == <<"Y", "Z", "W", "V">>

\* model_generator.py 114-127: the dict the generator pickles; generation g
\* has its own rules and its own metadata['model_date'].
ModelOf(g) == [type |-> "dict", has_rules |-> TRUE, has_metadata |-> TRUE,
               other |-> TRUE,
               rules |-> <<Rule(PySet(<<"X">>), PySet(<<GenSongs[g]>>), 2),
                           Rule(PySet(<<"X", "Q">>), PySet(<<"U">>), 1)>>,
               model_date |-> g]

Generations == 1..MaxGen
IsValidModel(v) == \E g \in Generations : v = ModelOf(g)

\* Python truthiness of a loaded object ("if new_model:", "if app.model_data:")
Truthy(v) == v.type = "dict" /\ (v.has_rules \/ v.has_metadata \/ v.other)

\* Contents of the file: bytes pickle cannot read, or the pickle of an object
Garbage == [readable |-> FALSE, obj |-> PyNone]
Pickled(v) == [readable |-> TRUE, obj |-> v]
Contents == {Garbage, Pickled(EmptyDict), Pickled(NoStructDict)}
            \cup {Pickled(ModelOf(g)) : g \in Generations}
Times == 1..MaxTime

NoFile == [exists |-> FALSE, content |-> Garbage, mtime |-> 0]
FileOf(c, t) == [exists |-> TRUE, content |-> c, mtime |-> t]

\* app.model_last_modified: None or a float
NoTime == [isnone |-> TRUE, t |-> 0]
Mtime(t) == [isnone |-> FALSE, t |-> t]

\* app.py 26-41: None when the file does not exist (30-32) or when open or
\* pickle.load raises (39-41), else the unpickled object.  A file removed
\* between the test at 30 and the open at 35 makes open raise, with the same
\* result as a file missing at 30, so the file is read at one point.
load_model(f) ==
    IF f.exists /\ f.content.readable THEN f.content.obj ELSE PyNone

\* history: the mtime of the file version load_model reads (0 when it reads none)
ReadMtime(f) == IF f.exists /\ f.content.readable THEN f.mtime ELSE 0

\* app.py 55
NeedsReload(last, cur) == last.isnone \/ cur > last.t

\* app.py 58: "if new_model:"
PublishGuardMut(v) == TRUE
PublishGuard(v) == Truthy(v)

\* threading.Lock: acquire blocks while another thread holds the lock
LockFree == [held |-> FALSE, kind |-> "", id |-> 0]
HeldBy(kind, id) == [held |-> TRUE, kind |-> kind, id |-> id]
CanAcquireMut(l) == TRUE
CanAcquire(l) == ~l.held

----------------------------------------------------------------------------
(* Requests *)

Clients == 1..NumClients

\* request bodies: a list of songs, or one of the three shapes recommend rejects
ListBody(s) == [kind |-> "list", songs |-> s]
BadBody(k) == [kind |-> k, songs |-> <<>>]
Bodies == {ListBody(<<"X">>), ListBody(<<>>),
           BadBody("badjson"), BadBody("nofield"), BadBody("notlist")}
NoBody == BadBody("none")
WellFormed(b) == b.kind = "list"

DefaultMaxRecommendations == 10

NoResp == [status |-> 0, error |-> "", songs |-> <<>>, model_date |-> 0, input_songs |-> <<>>]
ErrorResp(st, e) ==
    [status |-> st, error |-> e, songs |-> <<>>, model_date |-> 0, input_songs |-> <<>>]
\* app.py 172-178
OkResp(songs, date, input_songs) ==
    [status |-> 200, error |-> "", songs |-> songs, model_date |-> date,
     input_songs |-> input_songs]

----------------------------------------------------------------------------
(* Initial state: after the module is imported (app.py 19-24), before      *)
(* initialize_app; the file is in any state.                               *)

InitRecIdle ==
    /\ rec_pc = "off"
    /\ rec_rules = <<>>
    /\ rec_input = <<>>
    /\ rec_limit = 0
    /\ rec_result = <<>>
    /\ rec_input2 = <<>>
    /\ rec_result2 = <<>>

InitSys(f) ==
    /\ file = f
    /\ model_data = PyNone
    /\ model_last_modified = NoTime
    /\ model_lock = LockFree
    /\ main_pc = "i_acquire"
    /\ main_loaded = PyNone
    /\ poller_pc = "p_idle"
    /\ current_mtime = 0
    /\ new_model = PyNone
    /\ pc = [c \in Clients |-> "idle"]
    /\ body = [c \in Clients |-> NoBody]
    /\ recs = [c \in Clients |-> <<>>]
    /\ resp = [c \in Clients |-> NoResp]
    /\ completed = PyNone
    /\ read_mtime = 0
    /\ source_mtime = 0

Init ==
    /\ \E f \in {NoFile} \cup {FileOf(c, t) : c \in Contents, t \in Times} : InitSys(f)
    /\ InitRecIdle

----------------------------------------------------------------------------
(* The file system: the offline generator (or anyone) rewrites or removes  *)
(* the file at any time, with any modification time.                       *)

WriteFile(c, t) ==
    /\ main_pc # "crashed"
    /\ file' = FileOf(c, t)
    /\ UNCHANGED <<model_data, model_last_modified, model_lock, main_pc, main_loaded,
                   poller_pc, current_mtime, new_model, pc, body, recs, resp>>
    /\ UNCHANGED recvars
    /\ UNCHANGED histvars

DeleteFile ==
    /\ main_pc # "crashed"
    /\ file.exists
    /\ file' = NoFile
    /\ UNCHANGED <<model_data, model_last_modified, model_lock, main_pc, main_loaded,
                   poller_pc, current_mtime, new_model, pc, body, recs, resp>>
    /\ UNCHANGED recvars
    /\ UNCHANGED histvars

----------------------------------------------------------------------------
(* initialize_app, app.py 217-245 *)

\* 231: with app.model_lock
InitAcquire ==
    /\ main_pc = "i_acquire"
    /\ CanAcquire(model_lock)
    /\ model_lock' = HeldBy("main", 0)
    /\ main_pc' = "i_load"
    /\ UNCHANGED <<file, model_data, model_last_modified, main_loaded,
                   poller_pc, current_mtime, new_model, pc, body, recs, resp>>
    /\ UNCHANGED recvars
    /\ UNCHANGED histvars

\* 232: load_model()
InitLoad ==
    /\ main_pc = "i_load"
    /\ main_loaded' = load_model(file)
    /\ main_pc' = "i_assign"
    /\ UNCHANGED <<file, model_data, model_last_modified, model_lock,
                   poller_pc, current_mtime, new_model, pc, body, recs, resp>>
    /\ UNCHANGED recvars
    /\ read_mtime' = ReadMtime(file)
    /\ UNCHANGED <<completed, source_mtime>>

\* 232-233: app.model_data = (the value returned); if app.model_data:
InitAssign ==
    /\ main_pc = "i_assign"
    /\ model_data' = main_loaded
    /\ main_loaded' = PyNone
    /\ main_pc' = IF Truthy(main_loaded) THEN "i_getmtime" ELSE "i_release"
    /\ UNCHANGED <<file, model_last_modified, model_lock,
                   poller_pc, current_mtime, new_model, pc, body, recs, resp>>
    /\ UNCHANGED recvars
    /\ source_mtime' = read_mtime
    /\ read_mtime' = 0
    /\ completed' = IF Truthy(main_loaded) THEN completed ELSE main_loaded

\* 234: os.path.getmtime raises when the file is gone; nothing catches it,
\* the with block releases the lock and the process ends.
InitGetmtime ==
    /\ main_pc = "i_getmtime"
    /\ IF file.exists
       THEN /\ model_last_modified' = Mtime(file.mtime)
            /\ main_pc' = "i_release"
            /\ UNCHANGED model_lock
       ELSE /\ model_lock' = LockFree
            /\ main_pc' = "crashed"
            /\ UNCHANGED model_last_modified
    /\ UNCHANGED <<file, model_data, main_loaded,
                   poller_pc, current_mtime, new_model, pc, body, recs, resp>>
    /\ UNCHANGED recvars
    /\ completed' = IF file.exists THEN model_data ELSE completed
    /\ UNCHANGED <<read_mtime, source_mtime>>

\* end of the with block at 231
InitRelease ==
    /\ main_pc = "i_release"
    /\ model_lock' = LockFree
    /\ main_pc' = "i_start"
    /\ UNCHANGED <<file, model_data, model_last_modified, main_loaded,
                   poller_pc, current_mtime, new_model, pc, body, recs, resp>>
    /\ UNCHANGED recvars
    /\ UNCHANGED histvars

\* 241-242, then app.run at 259
InitStartPoller ==
    /\ main_pc = "i_start"
    /\ poller_pc' = "p_exists"
    /\ main_pc' = "serving"
    /\ UNCHANGED <<file, model_data, model_last_modified, model_lock, main_loaded,
                   current_mtime, new_model, pc, body, recs, resp>>
    /\ UNCHANGED recvars
    /\ UNCHANGED histvars

----------------------------------------------------------------------------
(* check_and_reload_model, app.py 43-68: one iteration of "while True".    *)
(* The locals current_mtime and new_model are reset once no later          *)
(* statement reads them (51 and 57 assign them before any read).           *)

\* 50: os.path.exists(MODEL_PATH)
PollExists ==
    /\ poller_pc = "p_exists"
    /\ poller_pc' = IF file.exists THEN "p_getmtime" ELSE "p_sleep"
    /\ UNCHANGED <<file, model_data, model_last_modified, model_lock, main_pc, main_loaded,
                   current_mtime, new_model, pc, body, recs, resp>>
    /\ UNCHANGED recvars
    /\ UNCHANGED histvars

\* 51: os.path.getmtime raises when the file is gone; caught at 64
PollGetmtime ==
    /\ poller_pc = "p_getmtime"
    /\ IF file.exists
       THEN current_mtime' = file.mtime /\ poller_pc' = "p_acquire"
       ELSE UNCHANGED current_mtime /\ poller_pc' = "p_sleep"
    /\ UNCHANGED <<file, model_data, model_last_modified, model_lock, main_pc, main_loaded,
                   new_model, pc, body, recs, resp>>
    /\ UNCHANGED recvars
    /\ UNCHANGED histvars

\* 53-55: with app.model_lock, then the test of 55 (between the two no
\* other thread writes app.model_last_modified)
PollAcquire ==
    /\ poller_pc = "p_acquire"
    /\ CanAcquire(model_lock)
    /\ model_lock' = HeldBy("poller", 0)
    /\ IF NeedsReload(model_last_modified, current_mtime)
       THEN poller_pc' = "p_load" /\ UNCHANGED current_mtime
       ELSE poller_pc' = "p_skip" /\ current_mtime' = 0
    /\ UNCHANGED <<file, model_data, model_last_modified, main_pc, main_loaded,
                   new_model, pc, body, recs, resp>>
    /\ UNCHANGED recvars
    /\ UNCHANGED histvars

\* the poller as it would be if a failed load marked the file as seen
PollLoadMut ==
    /\ poller_pc = "p_load"
    /\ IF PublishGuard(load_model(file))
       THEN /\ new_model' = load_model(file)
            /\ poller_pc' = "p_assign_data"
            /\ UNCHANGED <<current_mtime, model_last_modified>>
       ELSE /\ new_model' = PyNone
            /\ poller_pc' = "p_failed"
            /\ model_last_modified' = Mtime(current_mtime)
            /\ current_mtime' = 0
    /\ UNCHANGED <<file, model_data, model_lock, main_pc, main_loaded,
                   pc, body, recs, resp>>
    /\ UNCHANGED recvars
    /\ read_mtime' = IF PublishGuard(load_model(file)) THEN ReadMtime(file) ELSE 0
    /\ UNCHANGED <<completed, source_mtime>>

\* 57-58: new_model = load_model(); if new_model:
PollLoad ==
    /\ poller_pc = "p_load"
    /\ IF PublishGuard(load_model(file))
       THEN /\ new_model' = load_model(file)
            /\ poller_pc' = "p_assign_data"
            /\ UNCHANGED current_mtime
       ELSE /\ new_model' = PyNone
            /\ poller_pc' = "p_failed"
            /\ current_mtime' = 0
    /\ UNCHANGED <<file, model_data, model_last_modified, model_lock, main_pc, main_loaded,
                   pc, body, recs, resp>>
    /\ UNCHANGED recvars
    /\ read_mtime' = IF PublishGuard(load_model(file)) THEN ReadMtime(file) ELSE 0
    /\ UNCHANGED <<completed, source_mtime>>

\* 59
PollAssignData ==
    /\ poller_pc = "p_assign_data"
    /\ model_data' = new_model
    /\ new_model' = PyNone
    /\ poller_pc' = "p_assign_mtime"
    /\ UNCHANGED <<file, model_last_modified, model_lock, main_pc, main_loaded,
                   current_mtime, pc, body, recs, resp>>
    /\ UNCHANGED recvars
    /\ source_mtime' = read_mtime
    /\ read_mtime' = 0
    /\ UNCHANGED completed

\* 60
PollAssignMtime ==
    /\ poller_pc = "p_assign_mtime"
    /\ model_last_modified' = Mtime(current_mtime)
    /\ current_mtime' = 0
    /\ poller_pc' = "p_print"
    /\ UNCHANGED <<file, model_data, model_lock, main_pc, main_loaded,
                   new_model, pc, body, recs, resp>>
    /\ UNCHANGED recvars
    /\ completed' = model_data
    /\ UNCHANGED <<read_mtime, source_mtime>>

\* The end of the with block, reached when the test of 55 fails ("p_skip"),
\* when the test of 58 fails ("p_failed"), or after the prints of 61-62
\* ("p_print"); these read app.model_data['metadata'], which raises KeyError
\* on a dict without it, and with or without the exception (caught at 64)
\* the lock is released.
PollRelease ==
    /\ poller_pc \in {"p_skip", "p_failed", "p_print"}
    /\ model_lock' = LockFree
    /\ poller_pc' = "p_sleep"
    /\ UNCHANGED <<file, model_data, model_last_modified, main_pc, main_loaded,
                   current_mtime, new_model, pc, body, recs, resp>>
    /\ UNCHANGED recvars
    /\ UNCHANGED histvars

\* 68: time.sleep(CHECK_MODEL_INTERVAL), then the next iteration
PollSleep ==
    /\ poller_pc = "p_sleep"
    /\ poller_pc' = "p_exists"
    /\ UNCHANGED <<file, model_data, model_last_modified, model_lock, main_pc, main_loaded,
                   current_mtime, new_model, pc, body, recs, resp>>
    /\ UNCHANGED recvars
    /\ UNCHANGED histvars

----------------------------------------------------------------------------
(* recommend, app.py 119-186.  Requests are served once app.run is reached, *)
(* each by a thread of its own; the threads are interchangeable, and a new *)
(* request is given the idle thread of lowest index.                        *)

LowestIdle(c) == \A d \in Clients : d < c => pc[d] # "idle"

StartRecommend(c) ==
    /\ main_pc = "serving"
    /\ pc[c] = "idle"
    /\ LowestIdle(c)
    /\ pc' = [pc EXCEPT ![c] = "r_acquire"]
    /\ UNCHANGED <<file, model_data, model_last_modified, model_lock, main_pc, main_loaded,
                   poller_pc, current_mtime, new_model, body, recs, resp>>
    /\ UNCHANGED recvars
    /\ UNCHANGED histvars

\* 137: with app.model_lock
RecAcquire(c) ==
    /\ pc[c] = "r_acquire"
    /\ CanAcquire(model_lock)
    /\ model_lock' = HeldBy("client", c)
    /\ pc' = [pc EXCEPT ![c] = "r_check"]
    /\ UNCHANGED <<file, model_data, model_last_modified, main_pc, main_loaded,
                   poller_pc, current_mtime, new_model, body, recs, resp>>
    /\ UNCHANGED recvars
    /\ UNCHANGED histvars

\* 145-164: the three 400 answers
ParseError(b) ==
    CASE b.kind = "badjson" -> "Invalid JSON"
      [] b.kind = "nofield" -> "Missing required field"
      [] b.kind = "notlist" -> "Invalid input"
      [] OTHER -> ""

\* recommend as it would be with a load on demand: a handler that finds no
\* model tries load_model() itself before it answers 503
RecCheckMut(c, b) ==
    /\ pc[c] = "r_check"
    /\ IF model_data = PyNone
       THEN /\ resp' = [resp EXCEPT ![c] = ErrorResp(503, "Model not loaded")]
            /\ pc' = [pc EXCEPT ![c] = "r_done"]
            /\ model_lock' = LockFree
            /\ model_data' = load_model(file)
            /\ UNCHANGED body
       ELSE IF ParseError(b) # ""
       THEN /\ resp' = [resp EXCEPT ![c] = ErrorResp(400, ParseError(b))]
            /\ pc' = [pc EXCEPT ![c] = "r_done"]
            /\ model_lock' = LockFree
            /\ UNCHANGED <<body, model_data>>
       ELSE /\ pc' = [pc EXCEPT ![c] = "r_rules"]
            /\ body' = [body EXCEPT ![c] = b]
            /\ UNCHANGED <<resp, model_lock, model_data>>
    /\ UNCHANGED <<file, model_last_modified, main_pc, main_loaded,
                   poller_pc, current_mtime, new_model, recs>>
    /\ UNCHANGED recvars
    /\ UNCHANGED histvars

\* 138-164: 503 when app.model_data is None; then the request body b is
\* read and parsed (146, local to the thread) and answered 400 when
\* malformed.  Each return leaves the with block.
RecCheck(c, b) ==
    /\ pc[c] = "r_check"
    /\ IF model_data = PyNone
       THEN /\ resp' = [resp EXCEPT ![c] = ErrorResp(503, "Model not loaded")]
            /\ pc' = [pc EXCEPT ![c] = "r_done"]
            /\ model_lock' = LockFree
            /\ UNCHANGED body
       ELSE IF ParseError(b) # ""
       THEN /\ resp' = [resp EXCEPT ![c] = ErrorResp(400, ParseError(b))]
            /\ pc' = [pc EXCEPT ![c] = "r_done"]
            /\ model_lock' = LockFree
            /\ UNCHANGED body
       ELSE /\ pc' = [pc EXCEPT ![c] = "r_rules"]
            /\ body' = [body EXCEPT ![c] = b]
            /\ UNCHANGED <<resp, model_lock>>
    /\ UNCHANGED <<file, model_data, model_last_modified, main_pc, main_loaded,
                   poller_pc, current_mtime, new_model, recs>>
    /\ UNCHANGED recvars
    /\ UNCHANGED histvars

\* 168-169: rules = app.model_data.get('rules', []); get_recommendations.
\* When model_data is None (possible only without the lock) .get raises: 500.
RecRules(c) ==
    /\ pc[c] = "r_rules"
    /\ IF model_data.type = "dict"
       THEN /\ recs' = [recs EXCEPT ![c] =
                          get_recommendations(body[c].songs,
                                              IF model_data.has_rules THEN model_data.rules
                                                                      ELSE <<>>,
                                              DefaultMaxRecommendations)]
            /\ pc' = [pc EXCEPT ![c] = "r_meta"]
            /\ UNCHANGED <<resp, model_lock, body>>
       ELSE /\ resp' = [resp EXCEPT ![c] = ErrorResp(500, "Recommendation failed")]
            /\ pc' = [pc EXCEPT ![c] = "r_done"]
            /\ body' = [body EXCEPT ![c] = NoBody]
            /\ model_lock' = LockFree
            /\ UNCHANGED recs
    /\ UNCHANGED <<file, model_data, model_last_modified, main_pc, main_loaded,
                   poller_pc, current_mtime, new_model>>
    /\ UNCHANGED recvars
    /\ UNCHANGED histvars

\* recommend as it would be with acquire() and release() calls in place of
\* the with block, and no release on the path of the exception
RecMetaMut(c) ==
    /\ pc[c] = "r_meta"
    /\ resp' = [resp EXCEPT ![c] =
                  IF model_data.type = "dict" /\ model_data.has_metadata
                  THEN OkResp(recs[c], model_data.model_date, body[c].songs)
                  ELSE ErrorResp(500, "Recommendation failed")]
    /\ pc' = [pc EXCEPT ![c] = "r_done"]
    /\ recs' = [recs EXCEPT ![c] = <<>>]
    /\ body' = [body EXCEPT ![c] = NoBody]
    /\ model_lock' = IF model_data.type = "dict" /\ model_data.has_metadata
                     THEN LockFree ELSE model_lock
    /\ UNCHANGED <<file, model_data, model_last_modified, main_pc, main_loaded,
                   poller_pc, current_mtime, new_model>>
    /\ UNCHANGED recvars
    /\ UNCHANGED histvars

\* 172-186: app.model_data['metadata'] raises KeyError on a dict without
\* it: 500; otherwise 200.  Either return leaves the with block.
RecMeta(c) ==
    /\ pc[c] = "r_meta"
    /\ resp' = [resp EXCEPT ![c] =
                  IF model_data.type = "dict" /\ model_data.has_metadata
                  THEN OkResp(recs[c], model_data.model_date, body[c].songs)
                  ELSE ErrorResp(500, "Recommendation failed")]
    /\ pc' = [pc EXCEPT ![c] = "r_done"]
    /\ recs' = [recs EXCEPT ![c] = <<>>]
    /\ body' = [body EXCEPT ![c] = NoBody]
    /\ model_lock' = LockFree
    /\ UNCHANGED <<file, model_data, model_last_modified, main_pc, main_loaded,
                   poller_pc, current_mtime, new_model>>
    /\ UNCHANGED recvars
    /\ UNCHANGED histvars

----------------------------------------------------------------------------
(* health, app.py 188-201 *)

StartHealth(c) ==
    /\ main_pc = "serving"
    /\ pc[c] = "idle"
    /\ LowestIdle(c)
    /\ pc' = [pc EXCEPT ![c] = "h_acquire"]
    /\ UNCHANGED <<file, model_data, model_last_modified, model_lock, main_pc, main_loaded,
                   poller_pc, current_mtime, new_model, body, recs, resp>>
    /\ UNCHANGED recvars
    /\ UNCHANGED histvars

\* 193
HealthAcquire(c) ==
    /\ pc[c] = "h_acquire"
    /\ CanAcquire(model_lock)
    /\ model_lock' = HeldBy("client", c)
    /\ pc' = [pc EXCEPT ![c] = "h_read"]
    /\ UNCHANGED <<file, model_data, model_last_modified, main_pc, main_loaded,
                   poller_pc, current_mtime, new_model, body, recs, resp>>
    /\ UNCHANGED recvars
    /\ UNCHANGED histvars

HealthResp(is_healthy) ==
    IF is_healthy THEN [status |-> 200, error |-> "healthy", songs |-> <<>>, model_date |-> 0,
                        input_songs |-> <<>>]
                  ELSE ErrorResp(503, "unhealthy")

\* 194-201
HealthRead(c) ==
    /\ pc[c] = "h_read"
    /\ resp' = [resp EXCEPT ![c] = HealthResp(model_data # PyNone)]
    /\ pc' = [pc EXCEPT ![c] = "h_done"]
    /\ model_lock' = LockFree
    /\ UNCHANGED <<file, model_data, model_last_modified, main_pc, main_loaded,
                   poller_pc, current_mtime, new_model, body, recs>>
    /\ UNCHANGED recvars
    /\ UNCHANGED histvars

\* the response has been sent; the thread takes the next request
Finish(c) ==
    /\ pc[c] \in {"r_done", "h_done"}
    /\ pc' = [pc EXCEPT ![c] = "idle"]
    /\ resp' = [resp EXCEPT ![c] = NoResp]
    /\ UNCHANGED <<file, model_data, model_last_modified, model_lock, main_pc, main_loaded,
                   poller_pc, current_mtime, new_model, body, recs>>
    /\ UNCHANGED recvars
    /\ UNCHANGED histvars

----------------------------------------------------------------------------

Next ==
    \/ \E c \in Contents, t \in Times : WriteFile(c, t)
    \/ DeleteFile
    \/ InitAcquire
    \/ InitLoad
    \/ InitAssign
    \/ InitGetmtime
    \/ InitRelease
    \/ InitStartPoller
    \/ PollExists
    \/ PollGetmtime
    \/ PollAcquire
    \/ PollLoad
    \/ PollAssignData
    \/ PollAssignMtime
    \/ PollRelease
    \/ PollSleep
    \/ \E c \in Clients : StartRecommend(c)
    \/ \E c \in Clients : RecAcquire(c)
    \/ \E c \in Clients, b \in Bodies : RecCheck(c, b)
    \/ \E c \in Clients : RecRules(c)
    \/ \E c \in Clients : RecMeta(c)
    \/ \E c \in Clients : StartHealth(c)
    \/ \E c \in Clients : HealthAcquire(c)
    \/ \E c \in Clients : HealthRead(c)
    \/ \E c \in Clients : Finish(c)

Spec == Init /\ [][Next]_vars

----------------------------------------------------------------------------
(* SpecRec: get_recommendations on bounded inputs.  The rule list is drawn *)
(* in the initial state, input_songs and max_recommendations at the call.  *)

RecItems == {"X", "Y", "Z"}
Confidences == 1..MaxConf
Antecedents == {Bare("X"), PySet(<<"Y">>), PySet(<<"X", "Y">>)}
Consequents == {Bare("Y"), Bare("Z"), PySet(<<"Y", "Z">>), PySet(<<"Z", "Y">>)}
RuleUniverse == {Rule(a, c, k) : a \in Antecedents, c \in Consequents, k \in Confidences}
LikedLists == SeqsUpTo(RecItems, MaxLiked)
Limits == 0..MaxLimit

Range(s) == {s[i] : i \in 1..Len(s)}

InitRec ==
    /\ InitSys(NoFile)
    /\ rec_pc = "ready"
    /\ \E k \in 0..MaxRules : rec_rules \in [1..k -> RuleUniverse]
    /\ rec_input = <<>>
    /\ rec_limit = 0
    /\ rec_result = <<>>
    /\ rec_input2 = <<>>
    /\ rec_result2 = <<>>

\* recommendations = get_recommendations(input_songs, rules, max_recommendations)
Call(input_songs, max_recommendations) ==
    /\ rec_pc = "ready"
    /\ rec_pc' = "called"
    /\ rec_input' = input_songs
    /\ rec_limit' = max_recommendations
    /\ rec_result' = get_recommendations(input_songs, rec_rules, max_recommendations)
    /\ UNCHANGED <<rec_rules, rec_input2, rec_result2>>
    /\ UNCHANGED sysvars
    /\ UNCHANGED histvars

\* a second call on the same rules, with the same songs listed again,
\* possibly in another order or with other repetitions
Recall(input_songs) ==
    /\ rec_pc = "called"
    /\ Range(input_songs) = Range(rec_input)
    /\ rec_pc' = "recalled"
    /\ rec_input2' = input_songs
    /\ rec_result2' = get_recommendations(input_songs, rec_rules, rec_limit)
    /\ UNCHANGED <<rec_rules, rec_input, rec_limit, rec_result>>
    /\ UNCHANGED sysvars
    /\ UNCHANGED histvars

NextRec ==
    \/ \E l \in LikedLists, n \in Limits : Call(l, n)
    \/ \E l \in LikedLists : Recall(l)

SpecRec == InitRec /\ [][NextRec]_vars

----------------------------------------------------------------------------
(* What the claims about get_recommendations speak of, stated on the       *)
(* arguments and the result of the call, independently of how the result   *)
(* is computed.                                                            *)

Called == rec_pc \in {"called", "recalled"}
Liked == Range(rec_input)
ItemsOf(x) == IF x.isset THEN Range(x.elems) ELSE {x.item}
\* the rules whose whole antecedent is liked
QualifyingRules == {i \in 1..Len(rec_rules) : ItemsOf(rec_rules[i].antecedent) \subseteq Liked}
\* the rules among them that conclude song s
RulesFor(s) == {i \in QualifyingRules : s \in ItemsOf(rec_rules[i].consequent)}
Candidates == {s \in RecItems : s \notin Liked /\ RulesFor(s) # {}}
Best(s) == CHOOSE k \in Confidences :
               /\ \E i \in RulesFor(s) : rec_rules[i].confidence = k
               /\ \A i \in RulesFor(s) : rec_rules[i].confidence <= k
FirstRule(s) == CHOOSE i \in RulesFor(s) : \A j \in RulesFor(s) : i <= j
PlaceIn(x, s) == IF x.isset THEN CHOOSE k \in 1..Len(x.elems) : x.elems[k] = s ELSE 1
\* s is met before t when the qualifying rules are scanned in stored order
MetBefore(s, t) ==
    \/ FirstRule(s) < FirstRule(t)
    \/ /\ FirstRule(s) = FirstRule(t)
       /\ PlaceIn(rec_rules[FirstRule(s)].consequent, s)
            < PlaceIn(rec_rules[FirstRule(t)].consequent, t)
Occurrences(s) == Cardinality({i \in 1..Len(rec_result) : rec_result[i] = s})

----------------------------------------------------------------------------
(* Claims about get_recommendations, checked under SpecRec *)

\* The worked examples, with confidences in hundredths
Single(x) == PySet(<<x>>)
ScenarioA ==
    get_recommendations(<<"X">>,
                        <<Rule(Single("X"), Single("Y"), 90),
                          Rule(Single("X"), Single("Z"), 90),
                          Rule(Single("Y"), Single("W"), 50)>>,
                        DefaultMaxRecommendations) = <<"Y", "Z">>
ScenarioB ==
    get_recommendations(<<"X">>, <<Rule(PySet(<<"X", "Y">>), Single("Z"), 80)>>,
                        DefaultMaxRecommendations) = <<>>
ScenarioC ==
    get_recommendations(<<"Z">>,
                        <<Rule(Single("X"), Single("Y"), 90),
                          Rule(PySet(<<"X", "Y">>), Single("W"), 80)>>,
                        DefaultMaxRecommendations) = <<>>
ScenarioE ==
    /\ get_recommendations(<<"X">>,
                           <<Rule(Single("X"), Single("Y"), 60),
                             Rule(Single("X"), Single("Y"), 95),
                             Rule(Single("X"), Single("Z"), 80)>>,
                           DefaultMaxRecommendations) = <<"Y", "Z">>
    /\ get_recommendations(<<"X">>,
                           <<Rule(Single("X"), Single("Y"), 95),
                             Rule(Single("X"), Single("Y"), 60),
                             Rule(Single("X"), Single("Z"), 80)>>,
                           DefaultMaxRecommendations) = <<"Y", "Z">>

\* C4: the result of get_recommendations contains no item of the liked-item
\* list and contains no item more than once.
C4_NoLikedNoDuplicate ==
    Called =>
        /\ \A i \in 1..Len(rec_result) : rec_result[i] \notin Liked
        /\ \A i, j \in 1..Len(rec_result) : i # j => rec_result[i] # rec_result[j]

\* a qualifying rule concludes a liked song next to a song that is returned
C4_Witness ==
    /\ rec_pc = "called"
    /\ rec_result # <<>>
    /\ \E i \in QualifyingRules : ItemsOf(rec_rules[i].consequent) \cap Liked # {}
    /\ \E s \in Candidates : Cardinality(RulesFor(s)) >= 2

\* C5: the result is ordered by descending best confidence, and two
\* candidates of equal best confidence appear in the order in which they were
\* first met while the qualifying rules are scanned in stored order.
C5_OrderedByConfidenceThenEncounter ==
    /\ ScenarioA
    /\ Called =>
        \A i, j \in 1..Len(rec_result) :
            i < j =>
                /\ rec_result[i] \in Candidates
                /\ rec_result[j] \in Candidates
                /\ \/ Best(rec_result[i]) > Best(rec_result[j])
                   \/ /\ Best(rec_result[i]) = Best(rec_result[j])
                      /\ MetBefore(rec_result[i], rec_result[j])

\* two songs tie at the best confidence, and the one met first reached that
\* confidence only in a rule after the one in which the other was met
C5_Witness ==
    /\ rec_pc = "called"
    /\ Len(rec_result) = 2
    /\ Best(rec_result[1]) = Best(rec_result[2])
    /\ rec_rules[FirstRule(rec_result[1])].confidence < Best(rec_result[1])
    /\ FirstRule(rec_result[1]) < FirstRule(rec_result[2])

\* C6: for limit >= 0 the length of the result is min(limit, number of
\* distinct songs that some qualifying rule concludes and that are not liked).
C6_LengthIsMinLimitCandidates ==
    (Called /\ rec_limit >= 0) =>
        Len(rec_result) = Min(rec_limit, Cardinality(Candidates))

\* more candidates than the limit: the result is cut
C6_Witness ==
    /\ rec_pc = "called"
    /\ rec_limit > 0
    /\ Cardinality(Candidates) > rec_limit
    /\ Len(rec_result) = rec_limit

\* C7: a candidate concluded by several qualifying rules appears once and is
\* ranked by the maximum confidence among those rules, whatever their order:
\* it is never listed twice, it is listed whenever the limit leaves room for
\* every candidate, no song listed before it has a lower maximum, and when it
\* is cut off no song listed has a lower maximum.
C7_RankedOnceByMaximum ==
    /\ ScenarioE
    /\ Called =>
        \A s \in Candidates :
            Cardinality(RulesFor(s)) >= 2 =>
                /\ Occurrences(s) <= 1
                /\ rec_limit >= Cardinality(Candidates) => Occurrences(s) = 1
                /\ \A i, j \in 1..Len(rec_result) :
                       (i < j /\ rec_result[j] = s) => Best(rec_result[i]) >= Best(s)
                /\ Occurrences(s) = 0 =>
                       \A i \in 1..Len(rec_result) : Best(rec_result[i]) >= Best(s)

\* a song is concluded first with a high and later with a lower confidence,
\* and is listed before a song whose confidence lies at that lower value
C7_Witness ==
    /\ rec_pc = "called"
    /\ Len(rec_result) = 2
    /\ \E i, j \in RulesFor(rec_result[1]) :
           /\ i < j
           /\ rec_rules[i].confidence > rec_rules[j].confidence
           /\ Best(rec_result[2]) = rec_rules[j].confidence
    /\ FirstRule(rec_result[2]) < FirstRule(rec_result[1])

\* C8: every returned song is in the consequent of a rule whose whole
\* antecedent is liked, and when no rule qualifies the result is the empty
\* list.
C8_OnlyFullyMatchedRules ==
    /\ ScenarioB
    /\ ScenarioC
    /\ Called =>
        /\ \A i \in 1..Len(rec_result) :
               \E r \in QualifyingRules : rec_result[i] \in ItemsOf(rec_rules[r].consequent)
        /\ QualifyingRules = {} => rec_result = <<>>

\* every rule has part of its antecedent liked, none has all of it
C8_Witness ==
    /\ rec_pc = "called"
    /\ rec_rules # <<>>
    /\ rec_limit > 0
    /\ QualifyingRules = {}
    /\ \A i \in 1..Len(rec_rules) : ItemsOf(rec_rules[i].antecedent) \cap Liked # {}
    /\ rec_result = <<>>

\* C9: two calls with the same rules and the same liked songs (listed in any
\* order, with any repetitions) return identical lists.
C9_SameSongsSameResult ==
    (rec_pc = "recalled" /\ Range(rec_input2) = Range(rec_input)) =>
        rec_result2 = rec_result

\* the second call lists the songs in another order and songs are returned
C9_Witness ==
    /\ rec_pc = "recalled"
    /\ rec_input2 # rec_input
    /\ Len(rec_input2) = Len(rec_input)
    /\ rec_result # <<>>
    /\ rec_result2 = rec_result

----------------------------------------------------------------------------
(* Claims about the store, the poller and the request handlers, checked    *)
(* under Spec                                                              *)

Returns(c) == pc[c] \in {"r_check", "r_rules", "r_meta"} /\ pc'[c] = "r_done"

\* C1: every successful recommend response is computed from one model
\* generation: its songs are the recommendations of the rules of the
\* generation whose model_date it carries.
C1_ResponseFromOneGeneration ==
    \A c \in Clients :
        (pc[c] = "r_done" /\ resp[c].status = 200) =>
            \E g \in Generations :
                /\ resp[c].model_date = g
                /\ resp[c].songs = get_recommendations(resp[c].input_songs, ModelOf(g).rules,
                                                       DefaultMaxRecommendations)

\* a request has computed songs from one generation and has not yet read the
\* metadata, while the poller waits for the lock to load another generation
C1_Witness ==
    \E c \in Clients :
        /\ pc[c] = "r_meta"
        /\ recs[c] # <<>>
        /\ poller_pc = "p_acquire"
        /\ IsValidModel(model_data)
        /\ file.exists
        /\ file.content.readable
        /\ IsValidModel(file.content.obj)
        /\ file.content.obj # model_data
        /\ NeedsReload(model_last_modified, current_mtime)

\* C2: once the store holds a good model, a file that is unreadable or that
\* lacks the rules/metadata structure is never published: the store goes on
\* holding a good model.
C2_MalformedNeverPublished ==
    [][IsValidModel(model_data) => IsValidModel(model_data')]_vars

\* C3: recommend answers 503 exactly when the store is absent at the moment
\* it is read, and a well-formed request to a store that holds a model is
\* answered 200.
C3_UnavailableIffAbsent ==
    [][\A c \in Clients :
          Returns(c) =>
              /\ resp'[c].status = 503 <=> model_data = PyNone
              /\ (model_data # PyNone /\ WellFormed(body[c])) => resp'[c].status = 200]_vars

\* C10: once app.model_data is not None it is never None again, and health
\* answers healthy exactly when it is not None: health never goes from
\* healthy to unhealthy.
C10_NeverBackToAbsent ==
    [][/\ model_data # PyNone => model_data' # PyNone
       /\ \A c \in Clients :
              (pc[c] = "h_read" /\ pc'[c] = "h_done") =>
                  (resp'[c].status = 200 <=> model_data' # PyNone)]_vars

\* the store holds a model and a load of the poller has just failed
C10_Witness ==
    /\ model_data # PyNone
    /\ poller_pc = "p_failed"
    /\ \E c \in Clients : pc[c] = "h_done" /\ resp[c].status = 200

----------------------------------------------------------------------------
(* Claims about initialization, the poll tick and the lock *)

\* C11: when the load attempt of initialize_app fails (file missing or
\* unreadable) the store is left None with no recorded mtime, and
\* initialization never ends before it has started the poller, whatever
\* happens to the file meanwhile.
C11_InitToleratesFailedLoad ==
    [][/\ (main_pc = "i_assign" /\ main_pc' # "i_assign" /\ main_loaded = PyNone) =>
              /\ model_data' = PyNone
              /\ model_last_modified' = NoTime
              /\ main_pc' = "i_release"
       /\ main_pc' # "crashed"]_vars

\* C12: a recommend request with a malformed or missing body is answered 400
\* whatever app.model_data holds, also while it is None, and is decided by a
\* handler that does not hold app.model_lock.
C12_InvalidRequestWithoutStore ==
    [][\A c \in Clients, b \in Bodies :
          (RecCheck(c, b) /\ ~WellFormed(b)) =>
              /\ resp'[c].status = 400
              /\ model_lock # HeldBy("client", c)]_vars

\* a request handler is blocked at "with app.model_lock" (137, 193)
Waiting(c) == pc[c] \in {"r_acquire", "h_acquire"} /\ model_lock.held
\* load_model() is about to read and unpickle the file (232, 57)
LoadInProgress == main_pc = "i_load" \/ poller_pc = "p_load"

\* C13: the file is never read and parsed under the lock the request
\* handlers need: no recommend or health request waits for app.model_lock
\* while a load of the model file is in progress.
C13_NoLoadUnderLock ==
    \A c \in Clients : Waiting(c) => ~LoadInProgress

\* C15: readers never block each other: no request handler waits for
\* app.model_lock while another request handler holds it.
C15_ReadersNeverBlockReaders ==
    \A c, d \in Clients : Waiting(c) => model_lock # HeldBy("client", d)

\* a request handler is inside its with block, where it reads app.model_data
Reading(c) == pc[c] \in {"r_check", "r_rules", "r_meta", "h_read"}

\* C14: reads are linearizable with respect to publishes: every read of
\* app.model_data by a request handler returns the model of the most recently
\* completed publish, never an earlier one and never one whose publish (59-60)
\* is still under way, and a successful response carries the songs and the
\* model_date of that model.
C14_ReadsSeeLastCompletedPublish ==
    [][\A c \in Clients :
          /\ (Reading(c) /\ pc'[c] # pc[c]) => model_data = completed
          /\ (pc[c] = "r_meta" /\ pc'[c] = "r_done" /\ resp'[c].status = 200) =>
                 /\ resp'[c].model_date = completed.model_date
                 /\ resp'[c].songs = get_recommendations(resp'[c].input_songs, completed.rules,
                                                         DefaultMaxRecommendations)
          /\ (pc[c] = "h_read" /\ pc'[c] = "h_done") =>
                 (resp'[c].status = 200 <=> completed # PyNone)]_vars

\* one request has answered from generation 1, and a later one reads
\* generation 2, which the poller has published in between
C14_Witness ==
    /\ pc[1] = "r_done"
    /\ resp[1].status = 200
    /\ resp[1].model_date = 1
    /\ pc[2] = "r_meta"
    /\ model_data = ModelOf(2)
    /\ completed = ModelOf(2)
    /\ recs[2] = <<GenSongs[2]>>

\* the pair (app.model_data, app.model_last_modified)
Pair == <<model_data, model_last_modified>>
PollerStep == poller_pc # "p_idle" /\ poller_pc' # poller_pc

\* C16: once the poller runs, a poll tick changes the pair only after it has
\* seen the file with an mtime newer than the recorded one (or none recorded)
\* and the load has succeeded, that is, has returned a model; it then
\* replaces both, under the lock, by that model and the mtime it observed.
\* Every other tick leaves the pair unchanged.
C16_TickPublishesOnlyNewerGoodModel ==
    [][/\ (poller_pc # "p_idle" /\ Pair' # Pair) =>
              PollerStep /\ poller_pc \in {"p_assign_data", "p_assign_mtime"}
       /\ (PollerStep /\ poller_pc = "p_assign_data") =>
              /\ IsValidModel(model_data')
              /\ NeedsReload(model_last_modified, current_mtime)
              /\ model_last_modified' = model_last_modified
              /\ model_lock = HeldBy("poller", 0)
              /\ poller_pc' = "p_assign_mtime"
       /\ (PollerStep /\ poller_pc = "p_assign_mtime") =>
              /\ model_last_modified' = Mtime(current_mtime)
              /\ model_data' = model_data
              /\ model_lock = HeldBy("poller", 0)]_vars

----------------------------------------------------------------------------
(* SpecLive: Spec with the scheduling the threads get: a thread that can   *)
(* take a step takes it, and a thread blocked at "with app.model_lock"     *)
(* gets the lock when it is released again and again.  The file system     *)
(* and the arrival of requests are under no obligation.                    *)

MainRuns ==
    InitAcquire \/ InitLoad \/ InitAssign \/ InitGetmtime \/ InitRelease \/ InitStartPoller
PollerRuns ==
    \/ PollExists \/ PollGetmtime \/ PollLoad \/ PollAssignData \/ PollAssignMtime
    \/ PollRelease \/ PollSleep
HandlerRuns ==
    \E c \in Clients :
        \/ \E b \in Bodies : RecCheck(c, b)
        \/ RecRules(c) \/ RecMeta(c) \/ HealthRead(c)

Fairness ==
    /\ WF_vars(MainRuns)
    /\ WF_vars(PollerRuns)
    /\ SF_vars(PollAcquire)
    /\ \A c \in Clients : SF_vars(RecAcquire(c) \/ HealthAcquire(c))
    /\ WF_vars(HandlerRuns)

\* The environment and the threads of SpecLive: as in Next, with the
\* requests handled one at a time (by the first handler thread).
NextLive ==
    \/ \E c \in Contents, t \in Times : WriteFile(c, t)
    \/ DeleteFile
    \/ MainRuns
    \/ PollerRuns
    \/ PollAcquire
    \/ StartRecommend(1)
    \/ RecAcquire(1)
    \/ StartHealth(1)
    \/ HealthAcquire(1)
    \/ HandlerRuns
    \/ Finish(1)

SpecLive == Init /\ [][NextLive]_vars /\ Fairness

ValidFile(g, t) == FileOf(Pickled(ModelOf(g)), t)

\* C17: a failed load is retried at every tick, without backoff: it leaves
\* app.model_last_modified as it was, so the test of 55 passes again as long
\* as the file's mtime is newer; the loop never ends, whatever fails
\* (every tick is followed by another); and when the file holds a valid
\* model with a newer mtime and stays so, the poller publishes that model
\* (unless it is already on its way to publish what an earlier load returned).
C17_FailedLoadsRetriedForever ==
    /\ [][(poller_pc = "p_load" /\ poller_pc' = "p_failed") =>
              /\ Pair' = Pair
              /\ NeedsReload(model_last_modified', current_mtime)]_vars
    /\ (poller_pc # "p_idle") ~> (poller_pc = "p_sleep")
    /\ (poller_pc = "p_sleep") ~> (poller_pc = "p_exists")
    /\ \A g \in Generations, t \in Times :
           [](( /\ poller_pc \notin {"p_idle", "p_assign_data", "p_assign_mtime"}
                /\ NeedsReload(model_last_modified, t)
                /\ [](file = ValidFile(g, t)) ) => <>(model_data = ModelOf(g)))

\* C18 as stated: the poller is the only writer of the pair; no request
\* and no other operation changes it.
C18_PollerIsOnlyWriter ==
    [][Pair' # Pair => PollerStep]_vars

\* initialize_app assigns the pair (232, 234) before any other thread runs
InitWrites ==
    /\ main_pc \in {"i_assign", "i_getmtime"}
    /\ main_pc' # main_pc
    /\ poller_pc = "p_idle"
    /\ \A c \in Clients : pc[c] = "idle"
\* the poller assigns it at 59 and 60
PollerWrites == PollerStep /\ poller_pc \in {"p_assign_data", "p_assign_mtime"}

\* C18, amended: the pair is written only by initialize_app, before the
\* poller and the request handlers run, and after that only by the poller;
\* no step of a recommend or health request, whatever its outcome, changes it.
C18_OnlyInitThenPollerWrite ==
    [][/\ Pair' # Pair => (InitWrites \/ PollerWrites)
       /\ \A c \in Clients : pc'[c] # pc[c] => Pair' = Pair]_vars

\* a request answered 500 on a store without structure, the poller has then
\* published a model, and a second request was answered from it
C18_Witness ==
    /\ pc[1] = "r_done"
    /\ resp[1].status = 500
    /\ pc[2] = "r_done"
    /\ resp[2].status = 200
    /\ IsValidModel(model_data)
    /\ ~model_last_modified.isnone

\* C19: whenever the store holds a model, the recorded
\* app.model_last_modified is not newer than the mtime of the file version
\* that model was read from, so that a later version is never taken for
\* already loaded.
C19_RecordedMtimeNotNewerThanSource ==
    (IsValidModel(model_data) /\ ~model_last_modified.isnone) =>
        model_last_modified.t <= source_mtime

\* C20: in every state a request handler can observe (it holds the lock),
\* app.model_data is None exactly when app.model_last_modified is None; and
\* app.model_last_modified, once recorded, never decreases.
C20_AbsentTogetherAndMtimeMonotone ==
    [][/\ \A c \in Clients :
              Reading(c) => (model_data = PyNone <=> model_last_modified.isnone)
       /\ ~model_last_modified.isnone =>
              /\ ~model_last_modified'.isnone
              /\ model_last_modified'.t >= model_last_modified.t]_vars

\* a load has just failed on an unreadable file whose mtime is newer than
\* the one recorded with the model the store holds
C17_Witness ==
    /\ poller_pc = "p_failed"
    /\ IsValidModel(model_data)
    /\ file.exists
    /\ ~file.content.readable
    /\ NeedsReload(model_last_modified, file.mtime)

\* the threads inside a with app.model_lock block
MainInside == main_pc \in {"i_load", "i_assign", "i_getmtime", "i_release"}
PollerInside ==
    poller_pc \in {"p_load", "p_assign_data", "p_assign_mtime", "p_skip", "p_failed", "p_print"}
Holders ==
    (IF MainInside THEN {HeldBy("main", 0)} ELSE {})
    \cup (IF PollerInside THEN {HeldBy("poller", 0)} ELSE {})
    \cup {HeldBy("client", c) : c \in {d \in Clients : Reading(d)}}

\* C21, the lock: at most one thread is inside a with block, the lock is
\* held exactly while one is, by that thread, and so it is free again after
\* every exit, the early returns and the exceptions included.
C21_LockHeldByTheOneInside ==
    /\ Cardinality(Holders) <= 1
    /\ model_lock.held <=> Holders # {}
    /\ model_lock.held => model_lock \in Holders

\* C21: the lock is held by at most one thread and released on every exit
\* path, so nothing deadlocks: every request that starts returns a
\* response, and the poller, once started, always comes to its next tick.
C21_LockReleasedNoDeadlock ==
    /\ []C21_LockHeldByTheOneInside
    /\ \A c \in Clients : (pc[c] # "idle") ~> (pc[c] \in {"r_done", "h_done"})
    /\ (poller_pc # "p_idle") ~> (poller_pc = "p_exists")

\* a handler is about to leave its with block by the KeyError of 175 while
\* the poller waits for the lock
C21_Witness ==
    /\ pc[1] = "r_meta"
    /\ model_data.type = "dict"
    /\ ~model_data.has_metadata
    /\ model_lock = HeldBy("client", 1)
    /\ poller_pc = "p_acquire"

====
